---------------------------- MODULE Spec2Model ----------------------------
(***************************************************************************)
(* Serenity/JS: the activity-execution core (actor, stage, crew members)  *)
(* and the PlaywrightStepReporter crew member.                             *)
(*                                                                         *)
(* Spec        an actor performs activities through attemptsTo; every      *)
(*             event goes through stage.announce to the crew, of which     *)
(*             PlaywrightStepReporter is one member.                       *)
(* SpecEvents  PlaywrightStepReporter.notifyOf receives arbitrary domain   *)
(*             events, as a unit under test.                               *)
(* SpecThe     an actor answers a description built by the() from a        *)
(*             template.                                                   *)
(* SpecAbilities     an actor is given abilities and asked for them.       *)
(* SpecPhotographer  Photographer.takeAPictureOf is called.                *)
(***************************************************************************)
EXTENDS Integers, Sequences, FiniteSets, TLC

(***************************************************************************)
(* Bounds of the model.                                                    *)
(***************************************************************************)
MaxListeners == 1   \* crew members registered besides the reporter
MaxWork      == 3   \* activities and artifacts of one run of Spec
MaxEnvId     == 2   \* correlation ids carried by events of SpecEvents
MaxEvents    == 3   \* events received in one run of SpecEvents

VARIABLES
    crew,         \* Stage: crew members, in registration order
    log,          \* events announced on the stage, in emission order
    trace,        \* calls and returns of announce, invocations of notifyOf
    steps,        \* PlaywrightStepReporter.steps: correlation id -> step
    created,      \* the steps testInfo._addStep created, with their complete calls
    attach,       \* promises returned by testInfo.attach, by correlation id
    annotations,  \* testInfo.annotations
    nextId,       \* CorrelationId.create(): ids are fresh and never reused
    raised,       \* the error the last notifyOf call threw, "none" if it returned
    received,     \* SpecEvents: events handed to notifyOf, in order
    stack,        \* Actor: activities being performed, innermost last
    work,         \* Spec: activities handed to attemptsTo and artifacts generated
    skipped,      \* Actor: activities never started because an earlier one failed
    result,       \* Actor: the promise attemptsTo returned to its caller
    question,     \* the(): the templates, parameters and options of a description
    answering,    \* the(): an actor answering the description, its calls and their promises
    abilities,    \* Actor: the abilities given to the actor by whoCan, by type
    lookup,       \* Actor: the outcome of the last abilityTo or BrowseTheWeb.as
    camera        \* Photographer: one call of takeAPictureOf and what the outlet was sent

vars == <<crew, log, trace, steps, created, attach, annotations, nextId,
          raised, received, stack, work, skipped, result,
          question, answering, abilities, lookup, camera>>

describingVars   == <<question, answering>>
abilityVars      == <<abilities, lookup>>
photographerVars == <<camera>>

\* what the stage, the reporter and the performing actor leave alone
elsewhere == <<describingVars, abilityVars, photographerVars>>

\* what the(), abilityTo and the Photographer leave alone
performance == <<crew, log, trace, steps, created, attach, annotations, nextId,
                 raised, received, stack, work, skipped, result>>

reporterVars == <<log, trace, steps, created, attach, annotations, nextId, raised>>
actorVars    == <<stack, work, skipped, result>>

(***************************************************************************)
(* Domain events.  One record shape for every event type; a field an       *)
(* event type does not carry holds its neutral value.                      *)
(***************************************************************************)
NoDetails == <<>>

Causes == {"c1", "c2"}

Event(type, id, details, name, description, outcome, error, artifact) ==
    [type |-> type, id |-> id, details |-> details, name |-> name,
     description |-> description, outcome |-> outcome, error |-> error,
     artifact |-> artifact]

TaskStarts(id, details) ==
    Event("TaskStarts", id, details, "", "", "", "none", "none")
InteractionStarts(id, details) ==
    Event("InteractionStarts", id, details, "", "", "", "none", "none")
TaskFinished(id, details, outcome, error) ==
    Event("TaskFinished", id, details, "", "", outcome, error, "none")
InteractionFinished(id, details, outcome, error) ==
    Event("InteractionFinished", id, details, "", "", outcome, error, "none")
AsyncOperationAttempted(name, description, id) ==
    Event("AsyncOperationAttempted", id, NoDetails, name, description, "", "none", "none")
AsyncOperationCompleted(id) ==
    Event("AsyncOperationCompleted", id, NoDetails, "", "", "", "none", "none")
AsyncOperationAborted(id) ==
    Event("AsyncOperationAborted", id, NoDetails, "", "", "", "none", "none")
AsyncOperationFailed(error, id) ==
    Event("AsyncOperationFailed", id, NoDetails, "", "", "", error, "none")
ActivityRelatedArtifactGenerated(id, name, artifact) ==
    Event("ActivityRelatedArtifactGenerated", id, NoDetails, name, "", "", "none", artifact)
SceneTagged(tag) ==
    Event("SceneTagged", 0, NoDetails, tag, "", "", "none", "none")

StartTypes    == {"TaskStarts", "InteractionStarts"}
FinishedTypes == {"TaskFinished", "InteractionFinished"}
TerminalAsyncTypes ==
    {"AsyncOperationCompleted", "AsyncOperationFailed", "AsyncOperationAborted"}

\* outcome instanceof ProblemIndication
ProblemIndication(outcome) == outcome = "Error"

\* event.name.value.startsWith(Photographer.name), over the names of the model
PhotographerName == "Photographer"
ReporterName     == "PlaywrightStepReporter"
StartsWithPhotographer(name) == name \in {"Photographer", "PhotographerOfFailures"}

(***************************************************************************)
(* The state the stage and the reporter work on, as one record, so that    *)
(* the synchronous call chain announce -> notifyOf -> announce can be      *)
(* computed within one step.                                               *)
(***************************************************************************)
World ==
    [log |-> log, trace |-> trace, steps |-> steps, created |-> created,
     attach |-> attach, annotations |-> annotations, nextId |-> nextId,
     raised |-> raised]

\* the state a call starts from: no error raised yet
Calm == [World EXCEPT !.raised = "none"]

Put(f, k, v) == [x \in DOMAIN f \cup {k} |-> IF x = k THEN v ELSE f[x]]

(***************************************************************************)
(* testInfo._addStep and TestStepInternal.complete: every step created is  *)
(* kept in `created` with the results complete() was called with.          *)
(***************************************************************************)
NoError == "none"

createStep(title, description, type) ==
    [category |-> type, title |-> title, description |-> description,
     completions |-> <<>>]

\* this.steps.set(id, this.createStep(...))
SetStep(w, id, step) ==
    [w EXCEPT !.created = Append(@, step),
              !.steps   = Put(@, id, Len(w.created) + 1)]

\* this.steps.has(id)
HasStep(w, id) == id \in DOMAIN w.steps

\* this.steps.get(id).complete({ error })
Complete(w, id, error) ==
    [w EXCEPT !.created[w.steps[id]].completions = Append(@, error)]

(***************************************************************************)
(* Stage.announce: every crew member's notifyOf is called with the event,  *)
(* in registration order, within the call.  A crew member other than the   *)
(* reporter only observes.                                                 *)
(***************************************************************************)
RECURSIVE Deliver(_, _, _, _)
RECURSIVE notifyOf(_, _)

Call(k)       == [op |-> "call",   k |-> k, member |-> ""]
Notify(k, m)  == [op |-> "notify", k |-> k, member |-> m]
Return(k)     == [op |-> "return", k |-> k, member |-> ""]

Reporter == "reporter"

announce(w, event) ==
    LET k  == Len(w.log) + 1
        w1 == [w EXCEPT !.log = Append(@, event), !.trace = Append(@, Call(k))]
        w2 == Deliver(w1, event, k, 1)
    IN  [w2 EXCEPT !.trace = Append(@, Return(k))]

\* a faulty delivery: the crew members are notified last registered first
Deliver_reversed(w, event, k, i) ==
    IF i > Len(crew) THEN w
    ELSE LET m  == crew[Len(crew) + 1 - i]
             w1 == [w EXCEPT !.trace = Append(@, Notify(k, m))]
             w2 == IF m = Reporter THEN notifyOf(w1, event) ELSE w1
         IN  Deliver(w2, event, k, i + 1)

Deliver(w, event, k, i) ==
    IF i > Len(crew) THEN w
    ELSE LET m  == crew[i]
             w1 == [w EXCEPT !.trace = Append(@, Notify(k, m))]
             w2 == IF m = Reporter THEN notifyOf(w1, event) ELSE w1
         IN  Deliver(w2, event, k, i + 1)

(***************************************************************************)
(* PlaywrightStepReporter.notifyOf                                         *)
(***************************************************************************)
\* lines 70-83: a step is created and stored under the event's correlation id
StoreStep(w, event) ==
    IF event.type = "TaskStarts"
    THEN SetStep(w, event.id, createStep(event.details, "", "task"))
    ELSE IF event.type = "InteractionStarts"
    THEN SetStep(w, event.id, createStep(event.details, "", "interaction"))
    ELSE IF event.type = "AsyncOperationAttempted" /\ StartsWithPhotographer(event.name)
    THEN SetStep(w, event.id, createStep(NoDetails, event.description, "crew"))
    ELSE w

\* a faulty handler that completes the step created last, whatever its id
CompleteAsyncStep_lastCreated(w, event) ==
    IF event.type \in TerminalAsyncTypes /\ w.created # <<>>
    THEN [w EXCEPT !.created[Len(w.created)].completions =
                        Append(@, event.error)]
    ELSE w

\* lines 85-94: the step of an asynchronous operation is completed, if there is one
CompleteAsyncStep(w, event) ==
    IF event.type \in {"AsyncOperationCompleted", "AsyncOperationAborted"}
       /\ HasStep(w, event.id)
    THEN Complete(w, event.id, NoError)
    ELSE IF event.type = "AsyncOperationFailed" /\ HasStep(w, event.id)
    THEN Complete(w, event.id, event.error)
    ELSE w

\* a faulty handler that completes every finished activity without an error
CompleteActivityStep_neverAnError(w, event) ==
    IF event.type \in FinishedTypes
    THEN IF ~HasStep(w, event.id)
         THEN [w EXCEPT !.raised = "TypeError"]
         ELSE Complete(w, event.id, NoError)
    ELSE w

\* lines 96-102: this.steps.get(id) is undefined for an id the map does not
\* hold, and calling complete on it throws a TypeError
CompleteActivityStep(w, event) ==
    IF event.type \in FinishedTypes
    THEN IF ~HasStep(w, event.id)
         THEN [w EXCEPT !.raised = "TypeError"]
         ELSE IF ProblemIndication(event.outcome)
              THEN Complete(w, event.id, event.error)
              ELSE Complete(w, event.id, NoError)
    ELSE w

\* a faulty attachment: AsyncOperationCompleted is announced without waiting
\* for the promise of testInfo.attach
AttachScreenshot_notAwaited(w, event) ==
    IF event.type = "ActivityRelatedArtifactGenerated" /\ event.artifact = "Photo"
    THEN LET id == w.nextId
             w1 == announce([w EXCEPT !.nextId = @ + 1],
                            AsyncOperationAttempted(ReporterName, event.name, id))
             w2 == announce(w1, AsyncOperationCompleted(id))
         IN  [w2 EXCEPT !.attach = Put(@, id, [name |-> event.name, state |-> "pending"])]
    ELSE w

\* lines 104-122: AsyncOperationAttempted is announced under a fresh id and
\* testInfo.attach is called; its promise is pending when notifyOf returns.
\* The description is the artifact's name, inside a fixed text that is left out.
AttachScreenshot(w, event) ==
    IF event.type = "ActivityRelatedArtifactGenerated" /\ event.artifact = "Photo"
    THEN LET id == w.nextId
             w1 == announce([w EXCEPT !.nextId = @ + 1],
                            AsyncOperationAttempted(ReporterName, event.name, id))
         IN  [w1 EXCEPT !.attach = Put(@, id, [name |-> event.name, state |-> "pending"])]
    ELSE w

\* lines 124-126
Annotate(w, event) ==
    IF event.type = "SceneTagged"
    THEN [w EXCEPT !.annotations = Append(@, event.name)]
    ELSE w

notifyOf(w, event) ==
    LET w1 == CompleteActivityStep(CompleteAsyncStep(StoreStep(w, event), event), event)
    IN  IF w1.raised # "none" THEN w1
        ELSE Annotate(AttachScreenshot(w1, event), event)

\* the variables after the call chain has returned
Becomes(w) ==
    /\ log' = w.log
    /\ trace' = w.trace
    /\ steps' = w.steps
    /\ created' = w.created
    /\ attach' = w.attach
    /\ annotations' = w.annotations
    /\ nextId' = w.nextId
    /\ raised' = w.raised

(***************************************************************************)
(* The promise of testInfo.attach and its then-callback (lines 115-121).   *)
(* Nothing handles a rejection.                                            *)
(***************************************************************************)
\* a faulty callback that reads the id from a variable shared by all
\* attachments: it announces the completion of the attachment made last
AttachFulfils_sharedId ==
    \E id \in DOMAIN attach :
        /\ attach[id].state = "pending"
        /\ Becomes(announce([Calm EXCEPT !.attach[id].state = "fulfilled"],
                            AsyncOperationCompleted(nextId - 1)))
        /\ UNCHANGED <<crew, elsewhere, received, actorVars>>

\* the promise fulfils and its then-callback announces the completion
AttachFulfils ==
    \E id \in DOMAIN attach :
        /\ attach[id].state = "pending"
        /\ Becomes(announce([Calm EXCEPT !.attach[id].state = "fulfilled"],
                            AsyncOperationCompleted(id)))
        /\ UNCHANGED <<crew, elsewhere, received, actorVars>>

\* the promise rejects: it has no rejection handler
AttachRejects ==
    \E id \in DOMAIN attach :
        /\ attach[id].state = "pending"
        /\ attach' = [attach EXCEPT ![id].state = "rejected"]
        /\ UNCHANGED <<crew, elsewhere, log, trace, steps, created, annotations, nextId,
                       raised, received, actorVars>>

(***************************************************************************)
(* Construction: the stage with its crew (registered during setup, before  *)
(* any event is announced), a reporter with an empty step map, an actor    *)
(* that has not been asked to do anything.                                 *)
(***************************************************************************)
ListenerNames == <<"listener1", "listener2", "listener3">>

\* the reporter and n listeners, the reporter registered at any position
Crew(n, at) ==
    [i \in 1..(n + 1) |-> IF i = at THEN Reporter
                          ELSE ListenerNames[IF i < at THEN i ELSE i - 1]]

Crews == UNION {{Crew(n, at) : at \in 1..(n + 1)} : n \in 0..MaxListeners}

FirstFreshId == MaxEnvId + 1

Quiet ==
    /\ log = <<>>
    /\ trace = <<>>
    /\ steps = <<>>
    /\ created = <<>>
    /\ attach = <<>>
    /\ annotations = <<>>
    /\ nextId = FirstFreshId
    /\ raised = "none"
    /\ received = <<>>
    /\ stack = <<>>
    /\ work = 0
    /\ skipped = {}
    /\ result = [state |-> "idle", cause |-> "none"]

\* nothing described, no ability given, no picture taken
NoOptions == [maxLength |-> 0]

NothingDescribed ==
    /\ question = [templates |-> <<>>, parameters |-> <<>>, options |-> NoOptions]
    /\ answering = [state |-> "idle", actor |-> "", awaiting |-> {},
                    settled |-> <<>>, descriptions |-> <<>>,
                    calls |-> <<>>, text |-> <<>>]

NoAbilities ==
    /\ abilities = [actor |-> "", map |-> <<>>, given |-> <<>>]
    /\ lookup = [state |-> "none", via |-> "", type |-> "", after |-> 0,
                 instance |-> 0, actor |-> "", missing |-> ""]

NoScreenshot == [step |-> "", path |-> <<>>]

NoPicture ==
    camera = [state |-> "idle", calls |-> 0, actor |-> "", step |-> "",
              invoked |-> <<>>, data |-> "", path |-> <<>>,
              sent |-> <<>>, result |-> NoScreenshot, cause |-> "none"]

Init == crew \in Crews /\ Quiet /\ NothingDescribed /\ NoAbilities /\ NoPicture

\* the reporter alone on the stage
InitEvents ==
    crew = <<Reporter>> /\ Quiet /\ NothingDescribed /\ NoAbilities /\ NoPicture

(***************************************************************************)
(* SpecEvents: the reporter is handed any event.                           *)
(***************************************************************************)
EnvIds == 1..MaxEnvId

EnvEvents ==
    {TaskStarts(id, NoDetails) : id \in EnvIds}
    \cup {InteractionStarts(id, NoDetails) : id \in EnvIds}
    \cup {TaskFinished(id, NoDetails, o, "none") : id \in EnvIds, o \in {"Success", "Skipped"}}
    \cup {TaskFinished(id, NoDetails, "Error", "c1") : id \in EnvIds}
    \cup {InteractionFinished(id, NoDetails, o, "none") : id \in EnvIds, o \in {"Success", "Skipped"}}
    \cup {InteractionFinished(id, NoDetails, "Error", "c1") : id \in EnvIds}
    \cup {AsyncOperationAttempted(n, "picture", id) : n \in {PhotographerName, "Other"}, id \in EnvIds}
    \cup {AsyncOperationCompleted(id) : id \in EnvIds}
    \cup {AsyncOperationAborted(id) : id \in EnvIds}
    \cup {AsyncOperationFailed("c1", id) : id \in EnvIds}
    \cup {ActivityRelatedArtifactGenerated(1, "shot", a) : a \in {"Photo", "Other"}}
    \cup {SceneTagged("tag")}

Receive ==
    \E event \in EnvEvents :
        /\ Len(received) < MaxEvents
        /\ received' = Append(received, event)
        /\ Becomes(notifyOf(Calm, event))
        /\ UNCHANGED <<crew, elsewhere, actorVars>>

NextEvents == Receive \/ AttachFulfils \/ AttachRejects

SpecEvents == InitEvents /\ [][NextEvents]_vars

(***************************************************************************)
(* The actor.  attemptsTo performs its activities strictly in order; each  *)
(* activity is announced as started under a fresh correlation id, then     *)
(* performed, then announced as finished with its outcome; a rejection is  *)
(* re-raised to the caller and the activities after it are not started.    *)
(*                                                                         *)
(* stack holds the activities in progress, the attemptsTo call of the      *)
(* test at the bottom.  An activity is named by its position: <<2, 1>> is  *)
(* the first activity of the second activity of the test's call; this is   *)
(* the name its events carry as details.                                   *)
(***************************************************************************)
Frame(id, kind, path, phase) ==
    [id |-> id, kind |-> kind, path |-> path, phase |-> phase,
     activities |-> <<>>, next |-> 1, failed |-> "none",
     awaited |-> TRUE, finished |-> FALSE]

Top == stack[Len(stack)]

Front(s) == SubSeq(s, 1, Len(s) - 1)

\* the lists of at most n activities
ActivityLists(n) == UNION {[1..k -> {"task", "interaction"}] : k \in 0..n}

\* PlayASong.performAs: the activities of the task are handed to the actor's
\* attemptsTo in one call, in the order of the sheet, and the promise of that
\* call is what performAs returns.  A task of the model is made as PlayASong
\* is, of activities rather than of chords only.
\* (performAs_notReturned is the faulty variant that calls attemptsTo and does
\* not return its promise.)
performAs_notReturned(musicSheet) ==
    [returned |-> "void", activities |-> musicSheet]

performAs(musicSheet) ==
    [returned |-> "attemptsTo", activities |-> musicSheet]

\* the promise of the attemptsTo call of frame f has settled
ChainSettled(f) == f.failed # "none" \/ f.next > Len(f.activities)

\* the activities of frame f that its rejected attemptsTo call leaves out
NotStarted(f) ==
    IF f.failed = "none" THEN {}
    ELSE {Append(f.path, j) : j \in f.next..Len(f.activities)}

\* attemptsTo goes on to its next activity
CanStartNext(f) == f.failed = "none" /\ f.next <= Len(f.activities)

\* a task nobody waits for any more leaves the stack when its activities are done
RECURSIVE Unwind(_)
Unwind(stk) ==
    IF stk # <<>> /\ stk[Len(stk)].finished /\ ChainSettled(stk[Len(stk)])
    THEN Unwind(Front(stk))
    ELSE stk

\* the innermost activity has settled with `cause` ("none": fulfilled): the
\* attemptsTo call that performed it is rejected with that cause
Pop(stk, cause) ==
    LET n == Len(stk) - 1
    IN  Unwind([Front(stk) EXCEPT ![n].failed = IF cause # "none" THEN cause ELSE @])

StartsEvent(kind, id, path) ==
    IF kind = "task" THEN TaskStarts(id, path) ELSE InteractionStarts(id, path)

FinishedEvent(kind, id, path, cause) ==
    LET outcome == IF cause = "none" THEN "Success" ELSE "Error"
    IN  IF kind = "task" THEN TaskFinished(id, path, outcome, cause)
        ELSE InteractionFinished(id, path, outcome, cause)

\* a faulty report: only a fulfilled activity is announced as finished
ReportFinished_fulfilledOnly(w, f, cause) ==
    IF cause = "none" THEN announce(w, FinishedEvent(f.kind, f.id, f.path, cause)) ELSE w

ReportFinished(w, f, cause) ==
    announce(w, FinishedEvent(f.kind, f.id, f.path, cause))

\* the test calls actor.attemptsTo(...activities)
AttemptsTo ==
    \E activities \in ActivityLists(MaxWork - work) :
        /\ result.state = "idle"
        /\ work' = work + Len(activities)
        /\ stack' = <<[Frame(0, "attemptsTo", <<>>, "performing")
                         EXCEPT !.activities = activities]>>
        /\ result' = [result EXCEPT !.state = "pending"]
        /\ UNCHANGED <<crew, elsewhere, reporterVars, received, skipped>>

\* the next activity of the innermost attemptsTo call starts
StartNext ==
    /\ stack # <<>>
    /\ Top.phase = "performing"
    /\ CanStartNext(Top)
    /\ LET f    == Top
           kind == f.activities[f.next]
           path == Append(f.path, f.next)
           sub  == Frame(nextId, kind, path,
                         IF kind = "task" THEN "started" ELSE "performing")
       IN  /\ stack' = Append([stack EXCEPT ![Len(stack)].next = @ + 1], sub)
           /\ Becomes(announce([Calm EXCEPT !.nextId = @ + 1],
                               StartsEvent(kind, nextId, path)))
    /\ UNCHANGED <<crew, elsewhere, received, work, skipped, result>>

\* a task's performAs is invoked
PerformTask ==
    /\ stack # <<>>
    /\ Top.kind = "task"
    /\ Top.phase = "started"
    /\ \E musicSheet \in ActivityLists(MaxWork - work) :
          /\ LET p == performAs(musicSheet)
             IN  stack' = [stack EXCEPT ![Len(stack)].phase = "performing",
                                        ![Len(stack)].activities = p.activities,
                                        ![Len(stack)].awaited = (p.returned = "attemptsTo")]
          /\ work' = work + Len(musicSheet)
    /\ UNCHANGED <<crew, elsewhere, reporterVars, received, skipped, result>>

\* an interaction's performAs fulfils or rejects
PerformInteraction ==
    \E cause \in {"none"} \cup Causes :
        /\ stack # <<>>
        /\ Top.kind = "interaction"
        /\ Becomes(ReportFinished(Calm, Top, cause))
        /\ stack' = Pop(stack, cause)
        /\ UNCHANGED <<crew, elsewhere, received, work, skipped, result>>

\* the promise a task's performAs returned has settled
FinishTask ==
    /\ stack # <<>>
    /\ Top.kind = "task"
    /\ Top.phase = "performing"
    /\ ~Top.finished
    /\ ~Top.awaited \/ ChainSettled(Top)
    /\ LET cause == IF Top.awaited THEN Top.failed ELSE "none"
       IN  /\ Becomes(ReportFinished(Calm, Top, cause))
           /\ stack' = IF ChainSettled(Top)
                       THEN Pop(stack, cause)
                       ELSE [stack EXCEPT ![Len(stack)].finished = TRUE]
    /\ skipped' = skipped \cup NotStarted(Top)
    /\ UNCHANGED <<crew, elsewhere, received, work, result>>

\* the promise of the test's attemptsTo call settles
Settle ==
    /\ Len(stack) = 1
    /\ Top.kind = "attemptsTo"
    /\ ChainSettled(Top)
    /\ result' = IF Top.failed = "none"
                 THEN [state |-> "fulfilled", cause |-> "none"]
                 ELSE [state |-> "rejected", cause |-> Top.failed]
    /\ stack' = <<>>
    /\ skipped' = skipped \cup NotStarted(Top)
    /\ UNCHANGED <<crew, elsewhere, reporterVars, received, work>>

\* a crew member that takes pictures announces a photo of the activity that
\* started last
Started == {i \in DOMAIN log : log[i].type \in StartTypes}

LastStarted == log[CHOOSE i \in Started : \A j \in Started : j <= i].id

\* every picture has a name of its own
PictureNames == <<"shot1", "shot2", "shot3", "shot4", "shot5">>

PicturesTaken ==
    Cardinality({k \in DOMAIN log : log[k].type = "ActivityRelatedArtifactGenerated"})

PhotoTaken ==
    /\ Started # {}
    /\ work < MaxWork
    /\ work' = work + 1
    /\ Becomes(announce(Calm, ActivityRelatedArtifactGenerated(
                                LastStarted, PictureNames[PicturesTaken + 1], "Photo")))
    /\ UNCHANGED <<crew, elsewhere, received, stack, skipped, result>>

Next ==
    \/ AttemptsTo
    \/ StartNext
    \/ PerformTask
    \/ PerformInteraction
    \/ FinishTask
    \/ Settle
    \/ PhotoTaken
    \/ AttachFulfils
    \/ AttachRejects

Spec == Init /\ [][Next]_vars

(***************************************************************************)
(* Properties of the actor's event stream (Spec).                          *)
(***************************************************************************)
ActivityTypes == StartTypes \cup FinishedTypes

ActivityEvents == {i \in DOMAIN log : log[i].type \in ActivityTypes}

StartsOf(id)   == {i \in DOMAIN log : log[i].type \in StartTypes /\ log[i].id = id}

FinishedOf(id) == {i \in DOMAIN log : log[i].type \in FinishedTypes /\ log[i].id = id}

ActivityIds == {log[i].id : i \in ActivityEvents}

\* the activities in progress
InProgress == {stack[n].id : n \in 2..Len(stack)}

Failures == {i \in DOMAIN log : log[i].type \in FinishedTypes /\ log[i].outcome = "Error"}

\* C1: every activity an actor executes emits exactly one Starts event, and,
\* once it has been performed, whether it fulfilled or rejected, exactly one
\* Finished event of its kind with the same correlation id, later in the
\* emission order than the Starts event.
C1_OneStartsOneFinished ==
    /\ \A id \in InProgress : Cardinality(StartsOf(id)) = 1
    /\ \A id \in ActivityIds :
         /\ Cardinality(StartsOf(id)) = 1
         /\ Cardinality(FinishedOf(id)) <= 1
         /\ \A i \in StartsOf(id), j \in FinishedOf(id) :
              /\ i < j
              /\ (log[i].type = "TaskStarts") = (log[j].type = "TaskFinished")
         /\ id \notin InProgress => Cardinality(FinishedOf(id)) = 1

C1_Witness ==
    /\ result.state = "rejected"
    /\ Cardinality(ActivityIds) >= 3
    /\ \A id \in ActivityIds :
         Cardinality(StartsOf(id)) = 1 /\ Cardinality(FinishedOf(id)) = 1

\* C2: when a sub-activity ai of a task fails, no later sub-activity of that
\* task emits a Starts event, and the task's Finished event carries the
\* outcome of ai's Finished event.
C2_FailureStopsTheTask ==
    \A i \in Failures :
        LET p == log[i].details
        IN  Len(p) >= 2 =>
              /\ \A j \in DOMAIN log :
                   (/\ log[j].type \in StartTypes
                    /\ Len(log[j].details) = Len(p)
                    /\ Front(log[j].details) = Front(p))
                   => log[j].details[Len(p)] <= p[Len(p)]
              /\ \A j \in DOMAIN log :
                   (log[j].type = "TaskFinished" /\ log[j].details = Front(p))
                   => /\ log[j].outcome = log[i].outcome
                      /\ log[j].error = log[i].error
              /\ \/ \E n \in DOMAIN stack : stack[n].path = Front(p)
                 \/ \E j \in DOMAIN log :
                      log[j].type = "TaskFinished" /\ log[j].details = Front(p)

\* a task has finished with the error of a sub-activity that was not its last
C2_Witness ==
    \E i \in Failures, j \in Failures :
        /\ log[j].type = "TaskFinished"
        /\ log[j].details = Front(log[i].details)
        /\ log[j].error = log[i].error
        /\ Append(Front(log[i].details), log[i].details[Len(log[i].details)] + 1) \in skipped

\* C3: the Starts and Finished events of a task's sub-activity come after the
\* task's Starts event and before its Finished event, and an activity starts
\* only after every activity before it in the same attemptsTo call has finished.
C3_NestedAndSequential ==
    \A i \in ActivityEvents :
        LET p == log[i].details
        IN  /\ Len(p) >= 2 =>
                 /\ \E j \in 1..(i - 1) :
                      log[j].type = "TaskStarts" /\ log[j].details = Front(p)
                 /\ \A j \in DOMAIN log :
                      (log[j].type = "TaskFinished" /\ log[j].details = Front(p))
                      => i < j
            /\ log[i].type \in StartTypes =>
                 \A k \in 1..(p[Len(p)] - 1) :
                     \E j \in 1..(i - 1) :
                         /\ log[j].type \in FinishedTypes
                         /\ log[j].details = Append(Front(p), k)

\* a task has finished after two sub-activities were performed
C3_Witness ==
    \E j \in DOMAIN log :
        /\ log[j].type = "TaskFinished"
        /\ \E i1, i2 \in 1..(j - 1) :
             /\ log[i1].type \in FinishedTypes
             /\ log[i2].type \in FinishedTypes
             /\ log[i1].details = Append(log[j].details, 1)
             /\ log[i2].details = Append(log[j].details, 2)

\* the caller of the attemptsTo call that performed the activity named p has
\* observed a rejection with `cause`
CallerObserved(p, cause) ==
    IF \E n \in DOMAIN stack : stack[n].path = Front(p)
    THEN \A n \in DOMAIN stack : stack[n].path = Front(p) => stack[n].failed = cause
    ELSE IF Len(p) = 1
    THEN result = [state |-> "rejected", cause |-> cause]
    ELSE \E j \in Failures :
             /\ log[j].type = "TaskFinished"
             /\ log[j].details = Front(p)
             /\ log[j].error = cause

\* C4: a rejection reaches the caller of attemptsTo only after the Finished
\* event with outcome Error(cause) has been emitted, and it always reaches
\* the caller, at every nesting depth.
C4_ReportedThenPropagated ==
    /\ \A n \in DOMAIN stack :
         stack[n].failed # "none" =>
             \E i \in Failures :
                 /\ log[i].details = Append(stack[n].path, stack[n].next - 1)
                 /\ log[i].error = stack[n].failed
                 /\ Cardinality(StartsOf(log[i].id)) = 1
    /\ result.state = "rejected" =>
         \E i \in Failures : Len(log[i].details) = 1 /\ log[i].error = result.cause
    /\ result.state = "fulfilled" => Failures = {}
    /\ \A i \in Failures : CallerObserved(log[i].details, log[i].error)

\* the test observes the rejection of an interaction two tasks deep
C4_Witness ==
    /\ result.state = "rejected"
    /\ \E i \in Failures :
         /\ log[i].type = "InteractionFinished"
         /\ Len(log[i].details) = 3
         /\ log[i].error = result.cause

(***************************************************************************)
(* Properties of the stage's broadcast (Spec).                             *)
(***************************************************************************)
\* where announce call k starts and returns in the trace
CallAt(k)   == {i \in DOMAIN trace : trace[i] = Call(k)}
ReturnAt(k) == {i \in DOMAIN trace : trace[i] = Return(k)}

IsNotifyOf(k, t) == t.op = "notify" /\ t.k = k

\* the crew members notified of event k, in the order of the invocations
NotifiedOf(k) ==
    LET ns == SelectSeq(trace, LAMBDA t : IsNotifyOf(k, t))
    IN  [i \in DOMAIN ns |-> ns[i].member]

\* C5: each call of stage.announce invokes notifyOf on every registered crew
\* member exactly once, in registration order, before the call returns, also
\* when the call is made by a crew member from inside its own notifyOf.
C5_AnnounceReachesTheCrewInOrder ==
    \A k \in DOMAIN log :
        /\ Cardinality(CallAt(k)) = 1
        /\ Cardinality(ReturnAt(k)) = 1
        /\ NotifiedOf(k) = crew
        /\ \A c \in CallAt(k), r \in ReturnAt(k), i \in DOMAIN trace :
             IsNotifyOf(k, trace[i]) => c < i /\ i < r

\* the reporter, registered before a listener, has announced from inside its
\* notifyOf: the inner call has returned before the listener got the outer event
C5_Witness ==
    /\ Len(crew) >= 2
    /\ \E k \in DOMAIN log :
         /\ log[k].type = "ActivityRelatedArtifactGenerated"
         /\ \E c \in CallAt(k), r \in ReturnAt(k), c1 \in CallAt(k + 1), i \in DOMAIN trace :
              /\ c < c1 /\ c1 < i /\ i < r
              /\ IsNotifyOf(k, trace[i])
              /\ trace[i].member # Reporter

(***************************************************************************)
(* Properties of the reporter's attachments (Spec).                        *)
(***************************************************************************)
TerminalOf(id) ==
    {i \in DOMAIN log : log[i].type \in TerminalAsyncTypes /\ log[i].id = id}

AttemptedOf(id) ==
    {i \in DOMAIN log : log[i].type = "AsyncOperationAttempted" /\ log[i].id = id}

Photos ==
    {k \in DOMAIN log : /\ log[k].type = "ActivityRelatedArtifactGenerated"
                        /\ log[k].artifact = "Photo"}

\* C6: every AsyncOperationAttempted the reporter announces is followed by
\* exactly one terminal event with the same correlation id, once the
\* attachment has fulfilled or rejected.
C6_EveryAttemptTerminates ==
    \A id \in DOMAIN attach :
        /\ Cardinality(AttemptedOf(id)) = 1
        /\ attach[id].state # "pending" =>
             /\ Cardinality(TerminalOf(id)) = 1
             /\ \A a \in AttemptedOf(id), t \in TerminalOf(id) : a < t

\* C7: a failed attachment is reported by AsyncOperationFailed with the
\* correlation id of its AsyncOperationAttempted, and reaches no caller.
C7_FailedAttachmentIsReported ==
    \A id \in DOMAIN attach :
        attach[id].state = "rejected" =>
            /\ \E i \in DOMAIN log :
                 log[i].type = "AsyncOperationFailed" /\ log[i].id = id
            /\ raised = "none"

\* C8: notifyOf for a Photo artifact announces AsyncOperationAttempted before
\* it returns; the matching AsyncOperationCompleted is announced in no call
\* made within it, and only once the attachment has fulfilled.
C8_CompletedOnlyAfterAttachment ==
    \A k \in Photos :
        /\ k + 1 \in DOMAIN log
        /\ log[k + 1].type = "AsyncOperationAttempted"
        /\ log[k + 1].name = ReporterName
        /\ log[k + 1].id \in DOMAIN attach
        /\ \A c \in CallAt(k), r \in ReturnAt(k) :
             /\ \A a \in CallAt(k + 1) \cup ReturnAt(k + 1) : c < a /\ a < r
             /\ \A t \in TerminalOf(log[k + 1].id) :
                  /\ \A ct \in CallAt(t) : r < ct
                  /\ attach[log[k + 1].id].state = "fulfilled"

\* an attachment has fulfilled and its completion has been announced
C8_Witness ==
    \E k \in Photos :
        /\ k + 1 \in DOMAIN log
        /\ \E t \in TerminalOf(log[k + 1].id) :
             log[t].type = "AsyncOperationCompleted" /\ t > k + 1

(***************************************************************************)
(* Properties of the reporter's step map (SpecEvents).                     *)
(***************************************************************************)
\* the event is one the reporter stores a step for
IsStart(event) ==
    \/ event.type \in StartTypes
    \/ event.type = "AsyncOperationAttempted" /\ StartsWithPhotographer(event.name)

IsTerminal(event) == event.type \in FinishedTypes \cup TerminalAsyncTypes

\* `terminal` is the terminal event matching the start event `start`
Matches(start, terminal) ==
    /\ terminal.id = start.id
    /\ \/ start.type = "TaskStarts" /\ terminal.type = "TaskFinished"
       \/ start.type = "InteractionStarts" /\ terminal.type = "InteractionFinished"
       \/ start.type = "AsyncOperationAttempted" /\ terminal.type \in TerminalAsyncTypes

\* the ids whose start was received and whose terminal event was not, since
PendingIds ==
    {id \in EnvIds :
        \E i \in DOMAIN received :
            /\ IsStart(received[i]) /\ received[i].id = id
            /\ \A j \in (i + 1)..Len(received) : ~Matches(received[i], received[j])}

\* C9: the step map holds exactly the correlation ids whose start event was
\* received and whose terminal event was not.
C9_MapHoldsThePendingIds == DOMAIN steps = PendingIds

LastReceived == received'[Len(received')]

\* C10: a terminal event whose correlation id the step map does not hold is
\* ignored: notifyOf raises no error, completes no step, leaves the map as it is.
C10_UnknownTerminalIsIgnored ==
    [][(/\ received' # received
        /\ IsTerminal(LastReceived)
        /\ LastReceived.id \notin DOMAIN steps)
       => (raised' = "none" /\ steps' = steps /\ created' = created)]_vars

(***************************************************************************)
(* the(): a description built from a template.  Text is a sequence of      *)
(* characters; a template with N placeholders is N + 1 literal segments    *)
(* and N parameters.                                                       *)
(***************************************************************************)
MaxPlaceholders == 2

Segments == {<<>>, <<"a">>, <<"b", "c">>}

Strings == {<<"x">>, <<"y", "z">>}

Actors == {"Alice", "Bob"}

\* DescriptionFormattingOptions: maxLength 0 stands for no options given
Options == {NoOptions, [maxLength |-> 1]}

Parameter(kind, value, description, pending) ==
    [kind |-> kind, value |-> value, description |-> description,
     pending |-> pending]

\* a string, or a promise of a string
String(value, pending) == Parameter("string", value, <<>>, pending)
\* an object with a custom toString
Object(value) == Parameter("object", value, <<>>, FALSE)
\* Masked.valueOf(value)
Masked(value) == Parameter("masked", value, <<>>, FALSE)
\* a Question with a description, answered with a string
QuestionAbout(description, value) ==
    Parameter("question", value, description, FALSE)

Parameters ==
    {String(<<"x">>, FALSE), String(<<"x">>, TRUE), String(<<"y", "z">>, FALSE),
     Object(<<"x">>), QuestionAbout(<<"q">>, <<"x">>)}
        \cup {Masked(v) : v \in Strings}

Describable(parameter) == parameter.kind = "question"

describedBy(parameter, actor) == parameter.description

MaskedMarker == <<"[", "a masked value", "]">>

Quoted(text) == <<"\"">> \o text \o <<"\"">>

\* the first maxLength characters of the value, then an ellipsis
Trimmed(options, text) ==
    IF options.maxLength > 0 /\ Len(text) > options.maxLength
    THEN SubSeq(text, 1, options.maxLength) \o <<"...">>
    ELSE text

\* a faulty formatter that renders a masked value like any other string
formattedValue_unmasked(options, parameter) ==
    IF parameter.kind = "object"
    THEN Trimmed(options, parameter.value)
    ELSE Quoted(Trimmed(options, parameter.value))

\* Question.formattedValue(options).of(parameter), answered
formattedValue(options, parameter) ==
    IF parameter.kind = "masked" THEN MaskedMarker
    ELSE IF parameter.kind = "object" THEN Trimmed(options, parameter.value)
    ELSE Quoted(Trimmed(options, parameter.value))

\* templates.flatMap((template, i) => i < parameters.length ? [template, parameters[i]] : [template])
RECURSIVE flatMap(_, _, _)
flatMap(templates, parameters, i) ==
    IF i > Len(templates) THEN <<>>
    ELSE (IF i <= Len(parameters)
          THEN <<templates[i], parameters[i]>>
          ELSE <<templates[i]>>) \o flatMap(templates, parameters, i + 1)

RECURSIVE join(_)
join(pieces) ==
    IF pieces = <<>> THEN <<>> ELSE Head(pieces) \o join(Tail(pieces))

\* a faulty interpolation that puts each parameter before its template
interpolate_parameterFirst(templates, parameters) ==
    join([i \in 1..Len(templates) |->
            IF i <= Len(parameters)
            THEN parameters[i] \o templates[i]
            ELSE templates[i]])

interpolate(templates, parameters) ==
    join(flatMap(templates, parameters, 1))

\* a faulty resolver that answers every parameter, Describable or not
resolve_alwaysAnswered(actor, options, parameter) ==
    [rule |-> "answer", actor |-> actor, options |-> options,
     text |-> formattedValue(options, parameter)]

\* the callback of asyncMap in templateToQuestion: the call made for one
\* parameter and the text it resolves to
resolve(actor, options, parameter) ==
    IF Describable(parameter)
    THEN [rule |-> "describedBy", actor |-> actor, options |-> NoOptions,
          text |-> describedBy(parameter, actor)]
    ELSE [rule |-> "answer", actor |-> actor, options |-> options,
          text |-> formattedValue(options, parameter)]

Questions ==
    UNION {[templates : [1..(n + 1) -> Segments],
            parameters : [1..n -> Parameters],
            options : Options] : n \in 0..MaxPlaceholders}

\* the parameters the callback of asyncMap has been called for, and those
\* whose description has arrived
Called == Len(answering.calls)

Resolved == DOMAIN answering.descriptions

\* an actor is asked to answer the description
AnswerDescription ==
    \E actor \in Actors :
        /\ answering.state = "idle"
        /\ question.templates # <<>>
        /\ answering' = [answering EXCEPT !.state = "resolving", !.actor = actor]
        /\ UNCHANGED <<question, abilityVars, photographerVars, performance>>

\* asyncMap calls its callback for the next parameter: describedBy or
\* actor.answer returns a promise.  The call is made whether the earlier
\* promises have settled (items mapped one after another) or not (items
\* mapped all at once).
ResolveParameter ==
    /\ answering.state = "resolving"
    /\ Called < Len(question.parameters)
    /\ LET call == resolve(answering.actor, question.options,
                           question.parameters[Called + 1])
       IN  answering' =
               [answering EXCEPT
                   !.awaiting = @ \cup {Called + 1},
                   !.calls = Append(@, [rule |-> call.rule,
                                        actor |-> call.actor,
                                        options |-> call.options])]
    /\ UNCHANGED <<question, abilityVars, photographerVars, performance>>

\* the promise of one call is fulfilled: its text becomes the description
\* at the position of its parameter
ParameterFulfilled ==
    \E i \in answering.awaiting :
        /\ answering.state = "resolving"
        /\ LET call == resolve(answering.actor, question.options,
                               question.parameters[i])
           IN  answering' =
                   [answering EXCEPT
                       !.awaiting = @ \ {i},
                       !.settled = Append(@, i),
                       !.descriptions = Put(@, i, call.text)]
        /\ UNCHANGED <<question, abilityVars, photographerVars, performance>>

\* every parameter is resolved: return interpolate(templates, descriptions)
Interpolate ==
    /\ answering.state = "resolving"
    /\ Resolved = 1..Len(question.parameters)
    /\ answering' =
           [answering EXCEPT
               !.state = "done",
               !.text = interpolate(question.templates, answering.descriptions)]
    /\ UNCHANGED <<question, abilityVars, photographerVars, performance>>

InitThe ==
    /\ crew = <<Reporter>>
    /\ Quiet
    /\ question \in Questions
    /\ answering = [state |-> "idle", actor |-> "", awaiting |-> {},
                    settled |-> <<>>, descriptions |-> <<>>,
                    calls |-> <<>>, text |-> <<>>]
    /\ NoAbilities
    /\ NoPicture

NextThe ==
    \/ AnswerDescription
    \/ ResolveParameter
    \/ ParameterFulfilled
    \/ Interpolate

SpecThe == InitThe /\ [][NextThe]_vars

(***************************************************************************)
(* Properties of the().                                                    *)
(***************************************************************************)
\* the length of what precedes the i-th literal segment
RECURSIVE Before(_, _, _)
Before(templates, descriptions, i) ==
    IF i = 1 THEN 0
    ELSE Before(templates, descriptions, i - 1)
            + Len(templates[i - 1]) + Len(descriptions[i - 1])

\* piece occupies the positions of text right after the first `from` ones
At(text, from, piece) ==
    /\ from + Len(piece) <= Len(text)
    /\ SubSeq(text, from + 1, from + Len(piece)) = piece

Described == answering.state = "done"

Placeholders == 1..Len(question.parameters)

\* C11: the description an actor obtains is s0 d1 s1 ... dN sN: every
\* literal segment verbatim at its place, every resolved placeholder between
\* its two segments, nothing else, also for N = 0 and for awaited values.
C11_SegmentsAndPlaceholdersInOrder ==
    Described =>
        LET t == question.templates
            d == answering.descriptions
        IN  /\ Len(d) = Len(question.parameters)
            /\ \A i \in 1..Len(t) :
                    At(answering.text, Before(t, d, i), t[i])
            /\ \A i \in Placeholders :
                    At(answering.text, Before(t, d, i) + Len(t[i]), d[i])
            /\ Len(answering.text) = Before(t, d, Len(t)) + Len(t[Len(t)])

\* two placeholders whose promises are fulfilled last first
C11_Witness ==
    /\ Described
    /\ Len(question.parameters) = 2
    /\ question.templates[1] = <<"a">>
    /\ question.templates[2] = <<"b", "c">>
    /\ question.templates[3] = <<"a">>
    /\ question.parameters[1].pending
    /\ answering.descriptions[1] # answering.descriptions[2]
    /\ answering.settled = <<2, 1>>

\* what an actor obtains from the description q, as a function of q
DescriptionOf(q, actor) ==
    interpolate(q.templates,
                [i \in 1..Len(q.parameters) |->
                    resolve(actor, q.options, q.parameters[i]).text])

MaskedAt == {i \in Placeholders : question.parameters[i].kind = "masked"}

\* C12: the description does not depend on a masked value: it shows the
\* redaction marker at that placeholder and is the same for every value
\* that could have been wrapped.
C12_MaskedValueIsNotRevealed ==
    Described =>
        \A i \in MaskedAt :
            /\ At(answering.text,
                  Before(question.templates, answering.descriptions, i)
                      + Len(question.templates[i]),
                  MaskedMarker)
            /\ \A v \in Strings :
                    DescriptionOf([question EXCEPT !.parameters[i] = Masked(v)],
                                  answering.actor) = answering.text

C12_Witness ==
    /\ Described
    /\ Len(question.parameters) = 2
    /\ question.parameters[1] = Masked(<<"y", "z">>)
    /\ question.parameters[2] = String(<<"x">>, FALSE)
    /\ question.options.maxLength = 1

\* C13: each placeholder is resolved by exactly one rule: a Describable
\* through describedBy(actor), reported by its description; anything else
\* answered by the actor and formatted with the options of the use site.
C13_OneRulePerPlaceholder ==
    Described =>
        /\ Len(answering.calls) = Len(question.parameters)
        /\ \A i \in Placeholders :
                LET parameter == question.parameters[i]
                    call      == answering.calls[i]
                IN  /\ call.actor = answering.actor
                    /\ IF Describable(parameter)
                       THEN /\ call.rule = "describedBy"
                            /\ answering.descriptions[i] = parameter.description
                       ELSE /\ call.rule = "answer"
                            /\ call.options = question.options
                            /\ answering.descriptions[i]
                                  = formattedValue(question.options, parameter)

C13_Witness ==
    /\ Described
    /\ question.options.maxLength = 1
    /\ question.parameters = <<QuestionAbout(<<"q">>, <<"x">>),
                               String(<<"y", "z">>, FALSE)>>
    /\ answering.descriptions = <<<<"q">>, <<"\"", "y", "...", "\"">>>>

(***************************************************************************)
(* Abilities of an actor: whoCan gives them, abilityTo and               *)
(* BrowseTheWeb.as look them up by type.                                   *)
(***************************************************************************)
MaxAbilities == 3

AbilityTypes == {"BrowseTheWeb", "CallAnApi", "TakeNotes"}

RECURSIVE giveAll(_, _, _)
\* each ability is stored under its type, in the order given
giveAll(map, types, first) ==
    IF types = <<>> THEN map
    ELSE giveAll(Put(map, Head(types), first), Tail(types), first + 1)

\* actor.whoCan(...abilities): the instances are numbered as they are given
whoCan(a, types) ==
    [a EXCEPT
        !.map = giveAll(a.map, types, Len(a.given) + 1),
        !.given = a.given \o [i \in 1..Len(types) |->
                                [type |-> types[i],
                                 instance |-> Len(a.given) + i]]]

\* actor.abilityTo(type): the instance, or an error naming actor and type
abilityTo(a, type) ==
    IF type \in DOMAIN a.map
    THEN [state |-> "returned", type |-> type, after |-> Len(a.given),
          instance |-> a.map[type], actor |-> "", missing |-> ""]
    ELSE [state |-> "threw", type |-> type, after |-> Len(a.given),
          instance |-> 0, actor |-> a.actor, missing |-> type]

\* a faulty BrowseTheWeb.as that asks for another ability
BrowseTheWeb_as_otherAbility(a) ==
    [abilityTo(a, "CallAnApi") EXCEPT !.type = "BrowseTheWeb"]

\* BrowseTheWeb.as(actor)
BrowseTheWeb_as(a) ==
    abilityTo(a, "BrowseTheWeb")

Via(how, outcome) ==
    [state |-> outcome.state, via |-> how, type |-> outcome.type,
     after |-> outcome.after, instance |-> outcome.instance,
     actor |-> outcome.actor, missing |-> outcome.missing]

WhoCan ==
    \E n \in 1..2 : \E types \in [1..n -> AbilityTypes] :
        /\ Len(abilities.given) + n <= MaxAbilities
        /\ abilities' = whoCan(abilities, types)
        /\ UNCHANGED <<lookup, describingVars, photographerVars, performance>>

AbilityTo ==
    \E type \in AbilityTypes :
        /\ lookup' = Via("abilityTo", abilityTo(abilities, type))
        /\ UNCHANGED <<abilities, describingVars, photographerVars, performance>>

BrowseTheWebAs ==
    /\ lookup' = Via("as", BrowseTheWeb_as(abilities))
    /\ UNCHANGED <<abilities, describingVars, photographerVars, performance>>

InitAbilities ==
    /\ crew = <<Reporter>>
    /\ Quiet
    /\ NothingDescribed
    /\ \E actor \in Actors :
            abilities = [actor |-> actor, map |-> <<>>, given |-> <<>>]
    /\ lookup = [state |-> "none", via |-> "", type |-> "", after |-> 0,
                 instance |-> 0, actor |-> "", missing |-> ""]
    /\ NoPicture

NextAbilities ==
    \/ WhoCan
    \/ AbilityTo
    \/ BrowseTheWebAs

SpecAbilities == InitAbilities /\ [][NextAbilities]_vars

(***************************************************************************)
(* Properties of the abilities.                                            *)
(***************************************************************************)
\* the abilities of one type among the first n given
GivenBefore(type, n) ==
    {i \in 1..n : abilities.given[i].type = type}

Max(S) == CHOOSE x \in S : \A y \in S : y <= x

\* C14: abilityTo(T) returns the ability of type T given last, or fails
\* with an error naming the actor and T when none was given;
\* BrowseTheWeb.as(actor) is abilityTo(BrowseTheWeb).
C14_LastAbilityOfTheType ==
    lookup.state # "none" =>
        LET before == GivenBefore(lookup.type, lookup.after)
        IN  /\ lookup.via = "as" => lookup.type = "BrowseTheWeb"
            /\ IF before = {}
               THEN /\ lookup.state = "threw"
                    /\ lookup.actor = abilities.actor
                    /\ lookup.missing = lookup.type
               ELSE /\ lookup.state = "returned"
                    /\ lookup.instance = abilities.given[Max(before)].instance

C14_Witness ==
    /\ lookup.state = "returned"
    /\ lookup.via = "as"
    /\ Cardinality(GivenBefore("BrowseTheWeb", lookup.after)) = 2
    /\ lookup.after = 3
    /\ abilities.given[3].type = "CallAnApi"

(***************************************************************************)
(* Photographer.takeAPictureOf: BrowseTheWeb.as(actor).takeScreenshot(),   *)
(* then the outlet is sent the picture, then the Screenshot is made.       *)
(***************************************************************************)
MaxPictures == 2

Steps == {"step1", "step2"}

\* what takeScreenshot can be fulfilled with
Data == {"a", "b", "c"}

Md5_hashStr(data) ==
    CASE data = "a" -> "0cc175b9c0f1b6a831c399e269772661"
      [] data = "b" -> "92eb5ffee6ae2fec3ad71c777531578f"
      [] data = "c" -> "4a8a08f09d37b73795649038408b5f33"

\* Md5.hashStr(data) + '.png'
filenameFor(data) == <<Md5_hashStr(data), ".png">>

\* a faulty saveScreenshot that names the file after the step
saveScreenshot_namedAfterStep(closure, data) ==
    [filename |-> <<closure.step, ".png">>, data |-> data,
     actor |-> closure.actor, step |-> closure.step]

\* the call this.outlet.sendPicture(filenameFor(data), data), made within a
\* call of takeAPictureOf(actor, step)
saveScreenshot(closure, data) ==
    [filename |-> filenameFor(data), data |-> data,
     actor |-> closure.actor, step |-> closure.step]

\* the path the outlet stored the picture at
StoredAt(filename) == <<"outlet">> \o filename

Screenshot(step, path) == [step |-> step, path |-> path]

\* an actor with no ability, and one who can browse the web
Novice(actor) == [actor |-> actor, map |-> <<>>, given |-> <<>>]
Browsing(actor) == whoCan(Novice(actor), <<"BrowseTheWeb">>)

\* takeAPictureOf(actor, step) up to the call of takeScreenshot;
\* BrowseTheWeb.as throws before any promise exists
TakeAPictureOf ==
    \E actor \in Actors, step \in Steps, able \in BOOLEAN :
        /\ camera.state \notin {"capturing", "saving"}
        /\ camera.calls < MaxPictures
        /\ abilities' = IF able THEN Browsing(actor) ELSE Novice(actor)
        /\ lookup' = Via("as", BrowseTheWeb_as(abilities'))
        /\ camera' = [camera EXCEPT
                        !.state = IF lookup'.state = "returned"
                                  THEN "capturing" ELSE "threw",
                        !.calls = @ + 1,
                        !.actor = actor,
                        !.step = step,
                        !.invoked = IF lookup'.state = "returned"
                                    THEN <<"as", "takeScreenshot">>
                                    ELSE <<"as">>,
                        !.data = "",
                        !.path = <<>>,
                        !.result = NoScreenshot,
                        !.cause = IF lookup'.state = "returned"
                                  THEN "none" ELSE "abilityTo"]
        /\ UNCHANGED <<describingVars, performance>>

\* takeScreenshot is fulfilled: .then(saveScreenshot)
ScreenshotTaken ==
    \E data \in Data :
        /\ camera.state = "capturing"
        /\ camera' = [camera EXCEPT
                        !.state = "saving",
                        !.data = data,
                        !.invoked = Append(@, "sendPicture"),
                        !.sent = Append(@, saveScreenshot(camera, data))]
        /\ UNCHANGED <<abilityVars, describingVars, performance>>

\* a faulty chain that sends a picture although takeScreenshot was rejected
ScreenshotFails_stillSent ==
    /\ camera.state = "capturing"
    /\ camera' = [camera EXCEPT
                    !.state = "rejected",
                    !.cause = "takeScreenshot",
                    !.invoked = Append(@, "sendPicture"),
                    !.sent = Append(@, saveScreenshot(camera, "a"))]
    /\ UNCHANGED <<abilityVars, describingVars, performance>>

\* takeScreenshot is rejected: neither callback runs
ScreenshotFails ==
    /\ camera.state = "capturing"
    /\ camera' = [camera EXCEPT !.state = "rejected",
                                !.cause = "takeScreenshot"]
    /\ UNCHANGED <<abilityVars, describingVars, performance>>

\* sendPicture is fulfilled: .then(path => new Screenshot(step, path))
PictureSent ==
    /\ camera.state = "saving"
    /\ LET path == StoredAt(camera.sent[Len(camera.sent)].filename)
       IN  camera' = [camera EXCEPT
                        !.state = "fulfilled",
                        !.path = path,
                        !.invoked = Append(@, "Screenshot"),
                        !.result = Screenshot(camera.step, path)]
    /\ UNCHANGED <<abilityVars, describingVars, performance>>

\* sendPicture is rejected: no Screenshot is made
PictureNotSent ==
    /\ camera.state = "saving"
    /\ camera' = [camera EXCEPT !.state = "rejected",
                                !.cause = "sendPicture"]
    /\ UNCHANGED <<abilityVars, describingVars, performance>>

InitPhotographer ==
    /\ crew = <<Reporter>>
    /\ Quiet
    /\ NothingDescribed
    /\ NoAbilities
    /\ NoPicture

NextPhotographer ==
    \/ TakeAPictureOf
    \/ ScreenshotTaken
    \/ ScreenshotFails
    \/ PictureSent
    \/ PictureNotSent

SpecPhotographer == InitPhotographer /\ [][NextPhotographer]_vars

(***************************************************************************)
(* Properties of the Photographer.                                         *)
(***************************************************************************)
Sent == 1..Len(camera.sent)

\* C15: every picture is sent under the hash of its data followed by
\* '.png': two pictures with the same data have the same filename, whoever
\* the actor and whatever the step.
C15_FilenameDependsOnTheDataOnly ==
    /\ \A i \in Sent :
            /\ Len(camera.sent[i].filename) = 2
            /\ camera.sent[i].filename[1] = Md5_hashStr(camera.sent[i].data)
            /\ camera.sent[i].filename[2] = ".png"
    /\ \A i, j \in Sent :
            camera.sent[i].data = camera.sent[j].data
                => camera.sent[i].filename = camera.sent[j].filename

C15_Witness ==
    /\ Len(camera.sent) = 2
    /\ camera.sent[1].data = camera.sent[2].data
    /\ camera.sent[1].actor # camera.sent[2].actor
    /\ camera.sent[1].step # camera.sent[2].step
    /\ camera.state = "fulfilled"

(***************************************************************************)
(* Properties of the steps of PlaywrightStepReporter.                      *)
(***************************************************************************)
\* the start events among the first n received: each creates one step
StartsUpTo(n) == Cardinality({i \in 1..n : IsStart(received[i])})

\* the event that created step s
StartAt(s) ==
    CHOOSE i \in DOMAIN received : IsStart(received[i]) /\ StartsUpTo(i) = s

\* the last start event received with this id
LastStartOf(id) ==
    Max({i \in DOMAIN received : IsStart(received[i]) /\ received[i].id = id})

\* step s is stored under its id until a later start event takes the id
StoredUntil(s) ==
    LET later == {j \in (StartAt(s) + 1)..Len(received) :
                     /\ IsStart(received[j])
                     /\ received[j].id = received[StartAt(s)].id}
    IN  IF later = {} THEN Len(received) + 1
        ELSE CHOOSE j \in later : \A k \in later : j <= k

TerminalsFor(s) ==
    {j \in (StartAt(s) + 1)..(StoredUntil(s) - 1) :
        IsTerminal(received[j]) /\ received[j].id = received[StartAt(s)].id}

\* the result the terminal event asks the step to be completed with
ResultOf(event) ==
    IF event.type \in FinishedTypes
    THEN IF ProblemIndication(event.outcome) THEN event.error ELSE NoError
    ELSE IF event.type = "AsyncOperationFailed" THEN event.error
    ELSE NoError

\* C16: a terminal event completes the step created for the last start
\* event with its correlation id, with the error of a problem outcome or of
\* AsyncOperationFailed, and with no error otherwise.
C16_CompletedWithTheResultOfTheEvent ==
    [][(/\ received' # received
        /\ IsTerminal(LastReceived)
        /\ LastReceived.id \in DOMAIN steps)
       => LET s == StartsUpTo(LastStartOf(LastReceived.id))
          IN  /\ steps[LastReceived.id] = s
              /\ created' = [created EXCEPT ![s].completions =
                                Append(@, ResultOf(LastReceived))]]_vars

C16_Witness ==
    /\ Len(received) = 3
    /\ received[1].type = "TaskStarts"
    /\ received[2].type = "InteractionStarts"
    /\ received[2].id # received[1].id
    /\ received[3].type = "InteractionFinished"
    /\ received[3].id = received[2].id
    /\ received[3].outcome = "Error"
    /\ created[1].completions = <<>>
    /\ created[2].completions = <<"c1">>

\* C17: complete is invoked at most once on a step.
C17_CompletedAtMostOnce ==
    \A s \in DOMAIN created : Len(created[s].completions) <= 1

\* C18: a step is completed only by terminal events that carry the id it is
\* stored under: a start event with no such terminal event leaves its step
\* created and not completed, and raises no error.
C18_CompletedOnlyByItsTerminalEvent ==
    /\ Len(created) = StartsUpTo(Len(received))
    /\ \A s \in DOMAIN created :
            Len(created[s].completions) <= Cardinality(TerminalsFor(s))
    /\ (received # <<>> /\ IsStart(received[Len(received)]))
            => raised = "none"

C18_Witness ==
    /\ Len(received) = 3
    /\ received[1].type = "TaskStarts"
    /\ received[1].id = 1
    /\ received[2].type = "AsyncOperationCompleted"
    /\ received[2].id = 2
    /\ received[3].type = "InteractionStarts"
    /\ received[3].id = 2
    /\ created[1].completions = <<>>
    /\ created[2].completions = <<>>
    /\ raised = "none"

(***************************************************************************)
(* Properties of the attachments in flight and of the order in which the   *)
(* crew is notified.                                                       *)
(***************************************************************************)
CompletedEvents == {c \in DOMAIN log : log[c].type = "AsyncOperationCompleted"}

\* C19: with several attachments in flight, fulfilled in any order, every
\* AsyncOperationCompleted carries the id of the AsyncOperationAttempted
\* announced for the same artifact, announced before it; no id is completed
\* twice and none that was not attempted.
C19_CompletedCarriesTheIdOfItsAttempt ==
    \A c \in CompletedEvents :
        LET id == log[c].id
        IN  /\ Cardinality(AttemptedOf(id)) = 1
            /\ \A a \in AttemptedOf(id) :
                    /\ a < c
                    /\ log[a - 1].type = "ActivityRelatedArtifactGenerated"
                    /\ log[a].description = log[a - 1].name
                    /\ id \in DOMAIN attach
                    /\ attach[id].name = log[a - 1].name
                    /\ attach[id].state = "fulfilled"
            /\ \A d \in CompletedEvents : log[d].id = id => d = c

\* two attachments in flight at once, fulfilled in the reverse order
C19_Witness ==
    \E a1, a2, c2, c1 \in DOMAIN log :
        /\ a1 < a2 /\ a2 < c2 /\ c2 < c1
        /\ log[a1].type = "AsyncOperationAttempted"
        /\ log[a2].type = "AsyncOperationAttempted"
        /\ log[c2].type = "AsyncOperationCompleted"
        /\ log[c1].type = "AsyncOperationCompleted"
        /\ log[c2].id = log[a2].id
        /\ log[c1].id = log[a1].id
        /\ log[a1].description # log[a2].description

\* the invocations of notifyOf on one crew member, in the order they are made
NotifiedTo(m) ==
    {i \in DOMAIN trace : trace[i].op = "notify" /\ trace[i].member = m}

\* C20: every crew member is notified of the events in the order they were
\* announced: none is notified of the reporter's AsyncOperationAttempted
\* before the ActivityRelatedArtifactGenerated that caused it.
C20_EveryMemberObservesTheAnnouncedOrder ==
    \A n \in DOMAIN crew :
        \A i, j \in NotifiedTo(crew[n]) :
            i < j => trace[i].k < trace[j].k

\* the operations of takeAPictureOf, in the order of the promise chain
Chain == <<"as", "takeScreenshot", "sendPicture", "Screenshot">>

Invoked(operation) ==
    \E i \in DOMAIN camera.invoked : camera.invoked[i] = operation

Failed == camera.state \in {"threw", "rejected"}

\* C21: takeAPictureOf runs its steps in order and stops at the first
\* failure: sendPicture is invoked only once takeScreenshot has fulfilled,
\* with the data it returned; the Screenshot holds the given step and the
\* path the outlet returned; without the ability, or when takeScreenshot or
\* sendPicture fails, there is no Screenshot, the caller gets the failure
\* and sendPicture is not invoked after an earlier failure.
C21_StepsInOrderUntilTheFirstFailure ==
    /\ Len(camera.invoked) <= Len(Chain)
    /\ camera.invoked = SubSeq(Chain, 1, Len(camera.invoked))
    /\ Invoked("takeScreenshot") => lookup.state = "returned"
    /\ Invoked("sendPicture") =>
            /\ camera.data \in Data
            /\ camera.sent # <<>>
            /\ camera.sent[Len(camera.sent)].data = camera.data
    /\ ~Invoked("sendPicture") => camera.data = ""
    /\ camera.state = "fulfilled" =>
            /\ camera.invoked = Chain
            /\ camera.path = StoredAt(camera.sent[Len(camera.sent)].filename)
            /\ camera.result = [step |-> camera.step, path |-> camera.path]
    /\ camera.state # "fulfilled" =>
            /\ camera.result = NoScreenshot
            /\ ~Invoked("Screenshot")
    /\ Failed =>
            /\ camera.cause \in {"abilityTo", "takeScreenshot", "sendPicture"}
            /\ camera.cause = "abilityTo" <=> camera.state = "threw"
            /\ camera.cause = "abilityTo" <=> ~Invoked("takeScreenshot")
            /\ camera.cause = "sendPicture" <=> Invoked("sendPicture")
    /\ ~Failed => camera.cause = "none"

\* a second call whose takeScreenshot is rejected, after a first call that
\* sent its picture: the outlet was sent the first picture only
C21_Witness ==
    /\ camera.calls = 2
    /\ camera.state = "rejected"
    /\ camera.cause = "takeScreenshot"
    /\ Len(camera.sent) = 1
    /\ camera.sent[1].step # camera.step
    /\ camera.result = NoScreenshot

====
